---- MODULE Spec2Model ----
(***************************************************************************)
(* A model of luauencrypt: the LUAUBYTX container codec of src/luaucx.rs   *)
(* (encrypt_bytecode_into / decrypt_bytecode_into) and the command-line    *)
(* batch loops of src/main.rs.                                             *)
(*                                                                         *)
(* Bytes are integers 0..255 and byte strings are sequences.  Option<T> is *)
(* <<>> for None and <<x>> for Some(x).  A usize or u32 value is a pair    *)
(* <<hi, lo>> of 16-bit limbs (value hi * 2^16 + lo), so that lengths of   *)
(* 2^32 and more, and the cast `as u32`, are represented exactly.          *)
(***************************************************************************)
EXTENDS Integers, Sequences, FiniteSets, TLC

VARIABLES
    pc,        \* position of the run being modelled
    enc_in,    \* arguments of encrypt_bytecode_into
    enc_out,   \* its result and the sink it wrote
    tamper,    \* what happens to the container between encoder and decoder
    blob,      \* the bytes handed to decrypt_bytecode_into
    dec_in,    \* the other arguments of decrypt_bytecode_into
    dec_out,   \* its result and the sinks it wrote
    len_in,    \* length-level run: payload lengths as usize values
    len_enc,   \* length-level run: header written, bytes written, return value
    len_dec,   \* length-level run: what the decoder makes of that container
    cli,       \* batch run: subcommand and input files
    i,         \* batch run: index of the next file of the current loop
    compiled,  \* batch run: (path, bytecode) pairs collected so far
    fsys,      \* batch run: state of each output file, by name
    proc       \* batch run: running | done | exit | panic

codec_vars == <<enc_in, enc_out, tamper, blob, dec_in, dec_out>>
len_vars == <<len_in, len_enc, len_dec>>
batch_vars == <<cli, i, compiled, fsys, proc>>
vars == <<pc, codec_vars, len_vars, batch_vars>>

(***************************************************************************)
(* Program constants.                                                      *)
(***************************************************************************)
MAGIC == <<76, 85, 65, 85, 66, 89, 84, 88>>
LUAUCX_VERSION == 1
AEAD_XCHACHA20 == 1
NONCE_LEN == 24
TAG_LEN == 16
KEY_LEN == 32
HEADER_LEN == Len(MAGIC) + (2 * 1) + 2 + (2 * 4) + NONCE_LEN + TAG_LEN

(***************************************************************************)
(* Bounds of the model.                                                    *)
(***************************************************************************)
MaxPt == 2
MaxAd == 1
MaxFiles == 2

(***************************************************************************)
(* Integers of fixed width.                                                *)
(***************************************************************************)
Limb == 2^16

to_usize(n) == <<n \div Limb, n % Limb>>

usize_add(a, b) ==
    LET lo == a[2] + b[2] IN <<a[1] + b[1] + (lo \div Limb), lo % Limb>>

usize_sub(a, b) ==
    IF a[2] >= b[2] THEN <<a[1] - b[1], a[2] - b[2]>>
    ELSE <<a[1] - b[1] - 1, a[2] + Limb - b[2]>>

usize_leq(a, b) == a[1] < b[1] \/ (a[1] = b[1] /\ a[2] <= b[2])

\* the cast `x as u32` of a usize: the low 32 bits
as_u32(u) == <<u[1] % Limb, u[2]>>

\* the cast `x as usize` of a u32: zero extension
as_usize(v) == v

u32_to_le_bytes(v) == <<v[2] % 256, v[2] \div 256, v[1] % 256, v[1] \div 256>>

u32_from_le_bytes(b) == <<b[3] + 256 * b[4], b[1] + 256 * b[2]>>

u16_to_le_bytes(x) == <<x % 256, x \div 256>>

u16_from_le_bytes(b) == b[1] + 256 * b[2]

Rep(b, n) == [j \in 1..n |-> b]

RECURSIVE SumRange(_, _, _)
SumRange(s, lo, hi) ==
    IF lo > hi THEN 0
    ELSE IF lo = hi THEN s[lo]
    ELSE LET mid == (lo + hi) \div 2
         IN  SumRange(s, lo, mid) + SumRange(s, mid + 1, hi)

Sum(s) == SumRange(s, 1, Len(s))

RECURSIVE Xor8(_, _, _)
Xor8(a, b, n) ==
    IF n = 0 THEN 0
    ELSE (((a % 2) + (b % 2)) % 2) + 2 * Xor8(a \div 2, b \div 2, n - 1)

FlipBit(byte, bit) ==
    IF (byte \div (2^bit)) % 2 = 1 THEN byte - 2^bit ELSE byte + 2^bit

(***************************************************************************)
(* The AEAD of the chacha20poly1305 crate, which the codec calls through   *)
(* Aead::encrypt and Aead::decrypt.  The crate is not part of the          *)
(* repository; it is modelled by a cipher of the same shape: a keystream   *)
(* XORed onto the message, followed by a 16-byte tag that is a polynomial  *)
(* hash (modulo the prime 251) of nonce, associated data, ciphertext and   *)
(* their lengths under a key-derived point.  encrypt returns ct || tag;    *)
(* decrypt recomputes the tag and returns the plaintext only if it agrees. *)
(***************************************************************************)
keystream(key, nonce, j) == (Sum(key) + 3 * Sum(nonce) + 7 * j + 1) % 256

RECURSIVE PowMod(_, _)
PowMod(r, n) ==
    IF n = 0 THEN 1
    ELSE LET h == PowMod(r, n \div 2)
         IN  (h * h * (IF n % 2 = 1 THEN r ELSE 1)) % 251

\* the polynomial with coefficients data[lo..hi] (each plus one) at r, mod 251
RECURSIVE poly(_, _, _, _)
poly(data, r, lo, hi) ==
    IF lo > hi THEN 0
    ELSE IF lo = hi THEN (data[lo] + 1) % 251
    ELSE LET mid == (lo + hi) \div 2
         IN  (poly(data, r, lo, mid) * PowMod(r, hi - mid)
                + poly(data, r, mid + 1, hi)) % 251

mac(key, nonce, ct, aad) ==
    LET r == 2 + (Sum(key) % 249)
        s == 1 + (Sum(key) % 7)
        data == nonce \o aad \o ct \o <<Len(aad), Len(ct)>>
        t == poly(data, r, 1, Len(data))
    IN  [j \in 1..TAG_LEN |-> (t + j * s) % 256]

aead_encrypt(key, nonce, msg, aad) ==
    LET ct == [j \in 1..Len(msg) |-> Xor8(msg[j], keystream(key, nonce, j), 8)]
    IN  ct \o mac(key, nonce, ct, aad)

aead_decrypt(key, nonce, msg, aad) ==
    IF Len(msg) < TAG_LEN THEN [ok |-> FALSE, pt |-> <<>>]
    ELSE LET ct == SubSeq(msg, 1, Len(msg) - TAG_LEN)
             tg == SubSeq(msg, Len(msg) - TAG_LEN + 1, Len(msg))
         IN  IF tg = mac(key, nonce, ct, aad)
             THEN [ok |-> TRUE,
                   pt |-> [j \in 1..Len(ct) |->
                              Xor8(ct[j], keystream(key, nonce, j), 8)]]
             ELSE [ok |-> FALSE, pt |-> <<>>]

(***************************************************************************)
(* Sinks (&mut dyn Write).  A sink holds the bytes written so far and its  *)
(* room: the number of bytes it accepts before write fails (-1: no limit,  *)
(* as for a Vec).  std's write_all writes until the sink fails, so a       *)
(* failing call leaves the bytes the sink still accepted.                  *)
(***************************************************************************)
new_sink(room) == [data |-> <<>>, room |-> room]

write_all(w, buf) ==
    IF w.room < 0 \/ Len(w.data) + Len(buf) <= w.room
    THEN [w |-> [w EXCEPT !.data = @ \o buf], ok |-> TRUE]
    ELSE [w |-> [w EXCEPT !.data = @ \o SubSeq(buf, 1, w.room - Len(@))],
          ok |-> FALSE]

RECURSIVE write_chunks(_, _)
write_chunks(w, chunks) ==
    IF chunks = <<>> THEN [w |-> w, ok |-> TRUE]
    ELSE LET r == write_all(w, Head(chunks))
         IN  IF r.ok THEN write_chunks(r.w, Tail(chunks)) ELSE r

(***************************************************************************)
(* encrypt_bytecode_into                                                   *)
(***************************************************************************)
\* lines 78-82: magic, version and cipher id, key id, ad_len, ct_len
header_fields(key_id, ad_len, ct_len) ==
    << MAGIC,
       <<LUAUCX_VERSION, AEAD_XCHACHA20>>,
       u16_to_le_bytes(key_id),
       u32_to_le_bytes(as_u32(ad_len)),
       u32_to_le_bytes(as_u32(ct_len)) >>

\* enc_chunks with the last two writes exchanged
enc_chunks_ad_first(key_id, nonce, tag, ct, ad) ==
    header_fields(key_id, to_usize(Len(ad)), to_usize(Len(ct)))
        \o <<nonce, tag, ad, ct>>

\* lines 78-87: the writes, in order
enc_chunks(key_id, nonce, tag, ct, ad) ==
    header_fields(key_id, to_usize(Len(ad)), to_usize(Len(ct)))
        \o <<nonce, tag, ct, ad>>

\* line 89
enc_ret(ct_len, ad_len) == usize_add(usize_add(to_usize(HEADER_LEN), ct_len), ad_len)

\* rnd: the bytes random_nonce() draws when no nonce is given
encrypt_bytecode_into(bytecode, nonce, rnd, key, key_id, ad, out_buf) ==
    IF Len(key) # KEY_LEN
    THEN [res |-> "key must be 32 bytes", out_buf |-> out_buf, ret |-> <<>>]
    ELSE LET n == IF nonce = <<>> THEN rnd ELSE nonce[1]
             ciphertext == aead_encrypt(key, n, bytecode, ad)
             ct_len == Len(ciphertext) - TAG_LEN
             ct == SubSeq(ciphertext, 1, ct_len)
             tag == SubSeq(ciphertext, ct_len + 1, Len(ciphertext))
             w == write_chunks(out_buf, enc_chunks(key_id, n, tag, ct, ad))
         IN  IF w.ok
             THEN [res |-> "Ok", out_buf |-> w.w,
                   ret |-> <<enc_ret(to_usize(Len(ct)), to_usize(Len(ad)))>>]
             ELSE [res |-> "write failed", out_buf |-> w.w, ret |-> <<>>]

(***************************************************************************)
(* decrypt_bytecode_into                                                   *)
(***************************************************************************)
\* The readers index the buffer; an index past its end panics.  ok is FALSE
\* when the read panics.
in_bounds(off, len, input_len) == usize_leq(usize_add(off, len), input_len)

\* the number a usize stands for; used only where it is known to fit the buffer
from_usize(u) == u[1] * Limb + u[2]

\* lines 22-26: the slice input[off .. off + len] and the advanced offset
read_bytes(input, off, len) ==
    LET fits == in_bounds(to_usize(off), len, to_usize(Len(input)))
    IN  [ok |-> fits,
         v |-> IF fits THEN SubSeq(input, off + 1, off + from_usize(len))
               ELSE <<>>,
         off |-> IF fits THEN off + from_usize(len) ELSE off]

read_u8(input, off) ==
    [ok |-> off < Len(input),
     v |-> IF off < Len(input) THEN input[off + 1] ELSE 0,
     off |-> off + 1]

read_u16(input, off) ==
    [ok |-> off + 2 <= Len(input),
     v |-> IF off + 2 <= Len(input)
           THEN u16_from_le_bytes(SubSeq(input, off + 1, off + 2)) ELSE 0,
     off |-> off + 2]

read_u32(input, off) ==
    [ok |-> off + 4 <= Len(input),
     v |-> IF off + 4 <= Len(input)
           THEN u32_from_le_bytes(SubSeq(input, off + 1, off + 4)) ELSE <<0, 0>>,
     off |-> off + 4]

dec_result(res, out_buf, ad_buf, ret, cipher) ==
    [res |-> res, out_buf |-> out_buf, ad_buf |-> ad_buf, ret |-> ret,
     cipher |-> cipher]

\* line 104
magic_ok(magic) == magic = MAGIC

\* version_ok accepting every later version too
version_ok_at_least(ver) == ver >= LUAUCX_VERSION

\* line 107
version_ok(ver) == ver = LUAUCX_VERSION

\* line 110
aead_id_ok(aead_id) == aead_id = AEAD_XCHACHA20

\* key_id_ok comparing the low bytes only
key_id_ok_low_byte(expected_key_id, key_id) ==
    expected_key_id = <<>> \/ expected_key_id[1] % 256 = key_id % 256

\* lines 113-120
key_id_ok(expected_key_id, key_id) ==
    expected_key_id = <<>> \/ expected_key_id[1] = key_id

\* finish_decrypt taking a failure of the cipher for an empty plaintext
finish_decrypt_unchecked(pt, ad, out_buf, ad_buf) ==
    LET wa == IF ad_buf = <<>> THEN [w |-> <<>>, ok |-> TRUE]
              ELSE LET r == write_all(ad_buf[1], ad)
                   IN  [w |-> <<r.w>>, ok |-> r.ok]
        wp == write_all(out_buf, pt.pt)
    IN  IF ~wa.ok
        THEN dec_result("failed to write additional data", out_buf, wa.w, <<>>, TRUE)
        ELSE IF ~wp.ok
        THEN dec_result("failed to write plaintext", wp.w, wa.w, <<>>, TRUE)
        ELSE dec_result("Ok", wp.w, wa.w,
                        <<Len(pt.pt), IF ad_buf = <<>> THEN <<>> ELSE <<Len(ad)>>>>,
                        TRUE)

\* finish_decrypt writing the associated data before it looks at the result
\* of the cipher
finish_decrypt_ad_early(pt, ad, out_buf, ad_buf) ==
    LET wa == IF ad_buf = <<>> THEN [w |-> <<>>, ok |-> TRUE]
              ELSE LET r == write_all(ad_buf[1], ad)
                   IN  [w |-> <<r.w>>, ok |-> r.ok]
        wp == write_all(out_buf, pt.pt)
    IN  IF ~wa.ok
        THEN dec_result("failed to write additional data", out_buf, wa.w, <<>>, TRUE)
        ELSE IF ~pt.ok
        THEN dec_result("decryption failed", out_buf, wa.w, <<>>, TRUE)
        ELSE IF ~wp.ok
        THEN dec_result("failed to write plaintext", wp.w, wa.w, <<>>, TRUE)
        ELSE dec_result("Ok", wp.w, wa.w,
                        <<Len(pt.pt), IF ad_buf = <<>> THEN <<>> ELSE <<Len(ad)>>>>,
                        TRUE)

\* lines 150-162: the result of the cipher, then the two writes
finish_decrypt(pt, ad, out_buf, ad_buf) ==
    IF ~pt.ok
    THEN dec_result("decryption failed", out_buf, ad_buf, <<>>, TRUE)
    ELSE LET wa == IF ad_buf = <<>> THEN [w |-> <<>>, ok |-> TRUE]
                   ELSE LET r == write_all(ad_buf[1], ad)
                        IN  [w |-> <<r.w>>, ok |-> r.ok]
             wp == write_all(out_buf, pt.pt)
         IN  IF ~wa.ok
             THEN dec_result("failed to write additional data",
                             out_buf, wa.w, <<>>, TRUE)
             ELSE IF ~wp.ok
             THEN dec_result("failed to write plaintext", wp.w, wa.w, <<>>, TRUE)
             ELSE dec_result("Ok", wp.w, wa.w,
                             <<Len(pt.pt),
                               IF ad_buf = <<>> THEN <<>> ELSE <<Len(ad)>>>>,
                             TRUE)

\* lines 122-150: the two lengths, nonce, tag, ciphertext, associated data,
\* then the cipher
decrypt_body(blob_, off, key, out_buf, ad_buf) ==
    LET panic == dec_result("panic", out_buf, ad_buf, <<>>, FALSE)
        r_ad_len == read_u32(blob_, off)
        r_ct_len == read_u32(blob_, r_ad_len.off)
        r_nonce == read_bytes(blob_, r_ct_len.off, to_usize(NONCE_LEN))
        r_tag == read_bytes(blob_, r_nonce.off, to_usize(TAG_LEN))
        r_ct == read_bytes(blob_, r_tag.off, as_usize(r_ct_len.v))
        r_ad == read_bytes(blob_, r_ct.off, as_usize(r_ad_len.v))
    IN  IF ~r_ad_len.ok THEN panic
        ELSE IF ~r_ct_len.ok THEN panic
        ELSE IF ~r_nonce.ok THEN panic
        ELSE IF ~r_tag.ok THEN panic
        ELSE IF ~r_ct.ok THEN panic
        ELSE IF ~r_ad.ok THEN panic
        ELSE finish_decrypt(
                 aead_decrypt(key, r_nonce.v, r_ct.v \o r_tag.v, r_ad.v),
                 r_ad.v, out_buf, ad_buf)

decrypt_bytecode_into(blob_, key, expected_key_id, out_buf, ad_buf) ==
    LET fail(msg) == dec_result(msg, out_buf, ad_buf, <<>>, FALSE)
        r_magic == read_bytes(blob_, 0, to_usize(Len(MAGIC)))
        r_ver == read_u8(blob_, r_magic.off)
        r_aead == read_u8(blob_, r_ver.off)
        r_key_id == read_u16(blob_, r_aead.off)
    IN  IF Len(key) # KEY_LEN THEN fail("key must be 32 bytes")
        ELSE IF ~r_magic.ok THEN fail("panic")
        ELSE IF ~magic_ok(r_magic.v) THEN fail("invalid bytecode")
        ELSE IF ~r_ver.ok THEN fail("panic")
        ELSE IF ~version_ok(r_ver.v) THEN fail("unsupported version")
        ELSE IF ~r_aead.ok THEN fail("panic")
        ELSE IF ~aead_id_ok(r_aead.v) THEN fail("unsupported aead id")
        ELSE IF ~r_key_id.ok THEN fail("panic")
        ELSE IF ~key_id_ok(expected_key_id, r_key_id.v)
        THEN fail("key ID mismatch")
        ELSE decrypt_body(blob_, r_key_id.off, key, out_buf, ad_buf)

(***************************************************************************)
(* The container between encoder and decoder.                              *)
(***************************************************************************)
apply_tamper(b, t) ==
    CASE t.op = "none" -> b
      [] t.op = "flip" -> [b EXCEPT ![t.a] = FlipBit(@, t.b)]
      [] t.op = "set" -> [b EXCEPT ![t.a] = t.b]
      [] t.op = "trunc" -> SubSeq(b, 1, t.a)

(***************************************************************************)
(* Inputs.                                                                 *)
(***************************************************************************)
RECURSIVE SeqsUpTo(_, _)
SeqsUpTo(S, n) ==
    IF n = 0 THEN {<<>>}
    ELSE LET shorter == SeqsUpTo(S, n - 1)
         IN  shorter \cup {Append(s, x) : s \in shorter, x \in S}

Key0 == Rep(0, KEY_LEN)
Key1 == Rep(1, KEY_LEN)
KeyShort == Rep(0, KEY_LEN - 1)
Nonce0 == Rep(0, NONCE_LEN)
Nonce1 == Rep(165, NONCE_LEN)
Nonces == {Nonce0, Nonce1}
Idle == [res |-> "idle"]
NoTamper == [op |-> "none", a |-> 0, b |-> 0]

codec_idle ==
    /\ enc_in = Idle /\ enc_out = Idle /\ tamper = NoTamper /\ blob = <<>>
    /\ dec_in = Idle /\ dec_out = Idle

len_idle == len_in = Idle /\ len_enc = Idle /\ len_dec = Idle

batch_idle ==
    cli = Idle /\ i = 0 /\ compiled = <<>> /\ fsys = <<>> /\ proc = "idle"

(***************************************************************************)
(* The codec run: encode, deliver, decode.                                 *)
(***************************************************************************)
Encode ==
    /\ pc = "start"
    /\ \E rnd \in Nonces :
          enc_out' = encrypt_bytecode_into(enc_in.bytecode, enc_in.nonce, rnd,
                         enc_in.key, enc_in.key_id, enc_in.ad,
                         new_sink(enc_in.room))
    /\ pc' = "encoded"
    /\ UNCHANGED <<enc_in, tamper, blob, dec_in, dec_out, len_vars, batch_vars>>

Deliver ==
    /\ pc = "encoded"
    /\ enc_out.res = "Ok"
    /\ blob' = apply_tamper(enc_out.out_buf.data, tamper)
    /\ pc' = "delivered"
    /\ UNCHANGED <<enc_in, enc_out, tamper, dec_in, dec_out, len_vars, batch_vars>>

Decode ==
    /\ pc = "delivered"
    /\ dec_out' = decrypt_bytecode_into(blob, dec_in.key, dec_in.expected_key_id,
                      new_sink(dec_in.out_room),
                      IF dec_in.ad_room = <<>> THEN <<>>
                      ELSE <<new_sink(dec_in.ad_room[1])>>)
    /\ pc' = "decoded"
    /\ UNCHANGED <<enc_in, enc_out, tamper, blob, dec_in, len_vars, batch_vars>>

Next == Encode \/ Deliver \/ Decode

\* Honest runs: the container reaches the decoder as written, and the decoder
\* is given the encoder's key and key id and a sink for the associated data.
InitRT ==
    /\ pc = "start"
    /\ enc_in \in [bytecode : SeqsUpTo({104, 229}, MaxPt),
                   nonce : {<<>>, <<Nonce0>>, <<Nonce1>>},
                   key : {Key0, Key1, KeyShort},
                   key_id : {0, 7, 65535},
                   ad : SeqsUpTo({118, 0}, MaxAd),
                   room : {-1, 30, HEADER_LEN}]
    /\ tamper = NoTamper
    /\ dec_in \in [key : {enc_in.key},
                   expected_key_id : {<<enc_in.key_id>>},
                   out_room : {-1},
                   ad_room : {<<-1>>}]
    /\ enc_out = Idle /\ blob = <<>> /\ dec_out = Idle
    /\ len_idle /\ batch_idle

SpecRT == InitRT /\ [][Next]_vars

\* Arbitrary delivery: the container is cut short, has a header byte
\* overwritten or a bit flipped, and the decoder is given any key, any
\* expected key id and sinks that may fail.
AdvTampers(n) ==
    {NoTamper}
      \cup {[op |-> "trunc", a |-> m, b |-> 0] : m \in 0..(n - 1)}
      \cup {[op |-> "set", a |-> p, b |-> v] :
               p \in {1, 8, 9, 10, 11, 12} \cup (13..20), v \in {0, 2, 255}}
      \cup {[op |-> "flip", a |-> p, b |-> 0] :
               p \in {HEADER_LEN - TAG_LEN, HEADER_LEN} \cup ((HEADER_LEN + 1)..n)}

Init ==
    /\ pc = "start"
    /\ enc_in \in [bytecode : SeqsUpTo({104}, MaxPt),
                   nonce : {<<Nonce1>>},
                   key : {Key0},
                   key_id : {7},
                   ad : SeqsUpTo({118}, MaxAd),
                   room : {-1}]
    /\ tamper \in AdvTampers(HEADER_LEN + Len(enc_in.bytecode) + Len(enc_in.ad))
    /\ dec_in \in [key : {Key0, Key1, KeyShort},
                   expected_key_id : {<<>>, <<7>>, <<258>>},
                   out_room : {-1, 1},
                   ad_room : {<<>>, <<-1>>, <<0>>}]
    /\ enc_out = Idle /\ blob = <<>> /\ dec_out = Idle
    /\ len_idle /\ batch_idle

Spec == Init /\ [][Next]_vars

\* Single-bit corruption of the nonce, tag, ciphertext or associated data of
\* a valid container, decoded with the key it was sealed under.
BitFlips(n) ==
    {[op |-> "flip", a |-> p, b |-> k] :
        p \in (HEADER_LEN - NONCE_LEN - TAG_LEN + 1)..n, k \in 0..7}

InitTamper ==
    /\ pc = "start"
    /\ enc_in \in [bytecode : SeqsUpTo({104, 229}, MaxPt),
                   nonce : {<<Nonce1>>},
                   key : {Key1},
                   key_id : {7},
                   ad : SeqsUpTo({118}, MaxAd),
                   room : {-1}]
    /\ tamper \in BitFlips(HEADER_LEN + Len(enc_in.bytecode) + Len(enc_in.ad))
    /\ dec_in \in [key : {enc_in.key},
                   expected_key_id : {<<>>, <<enc_in.key_id>>},
                   out_room : {-1},
                   ad_room : {<<-1>>}]
    /\ enc_out = Idle /\ blob = <<>> /\ dec_out = Idle
    /\ len_idle /\ batch_idle

SpecTamper == InitTamper /\ [][Next]_vars

(***************************************************************************)
(* The codec on payloads known by their length only.  usize is 64 bits     *)
(* wide on the targets the tool is built for, so a payload can be 2^32     *)
(* bytes long or longer; such a payload cannot be enumerated byte by byte, *)
(* and this run follows what the code computes from the lengths: the       *)
(* header it writes, the number of bytes it writes, the value it returns,  *)
(* and what the decoder reads back from that header.                       *)
(***************************************************************************)
Flatten(chunks) ==
    [j \in 1..(Len(chunks[1]) + Len(chunks[2]) + Len(chunks[3])
                 + Len(chunks[4]) + Len(chunks[5])) |->
        IF j <= 8 THEN chunks[1][j]
        ELSE IF j <= 10 THEN chunks[2][j - 8]
        ELSE IF j <= 12 THEN chunks[3][j - 10]
        ELSE IF j <= 16 THEN chunks[4][j - 12]
        ELSE chunks[5][j - 16]]

\* lines 65-89 with a sink that does not fail: the cipher returns the
\* ciphertext (as long as the bytecode) followed by the tag
encrypt_lengths(bc_len, key_id, ad_len) ==
    LET ciphertext_len == usize_add(bc_len, to_usize(TAG_LEN))
        ct_len == usize_sub(ciphertext_len, to_usize(TAG_LEN))
        hdr == Flatten(header_fields(key_id, ad_len, ct_len))
    IN  [hdr |-> hdr,
         written |-> usize_add(usize_add(to_usize(Len(hdr) + NONCE_LEN + TAG_LEN),
                                         ct_len), ad_len),
         ret |-> enc_ret(ct_len, ad_len)]

\* lines 122-162 on a container the encoder wrote for payloads of bc_len and
\* ad_len bytes: the slices handed to the cipher are the sealed ciphertext and
\* associated data exactly when the declared lengths are the true ones, and
\* the tag covers both and their lengths
decrypt_lengths(hdr, blob_len, bc_len, ad_len) ==
    LET r_ad_len == read_u32(hdr, 12)
        r_ct_len == read_u32(hdr, r_ad_len.off)
        ct_off == to_usize(r_ct_len.off + NONCE_LEN + TAG_LEN)
        ct_len == as_usize(r_ct_len.v)
        ad_len_ == as_usize(r_ad_len.v)
    IN  IF ~in_bounds(ct_off, ct_len, blob_len) THEN [res |-> "panic", ret |-> <<>>]
        ELSE IF ~in_bounds(usize_add(ct_off, ct_len), ad_len_, blob_len)
        THEN [res |-> "panic", ret |-> <<>>]
        ELSE IF ct_len # bc_len \/ ad_len_ # ad_len
        THEN [res |-> "decryption failed", ret |-> <<>>]
        ELSE [res |-> "Ok", ret |-> <<ct_len, <<ad_len_>>>>]

EncodeLen ==
    /\ pc = "len_start"
    /\ len_enc' = encrypt_lengths(len_in.bc_len, len_in.key_id, len_in.ad_len)
    /\ pc' = "len_encoded"
    /\ UNCHANGED <<len_in, len_dec, codec_vars, batch_vars>>

DecodeLen ==
    /\ pc = "len_encoded"
    /\ len_dec' = decrypt_lengths(len_enc.hdr, len_enc.written,
                                  len_in.bc_len, len_in.ad_len)
    /\ pc' = "len_decoded"
    /\ UNCHANGED <<len_in, len_enc, codec_vars, batch_vars>>

NextLen == EncodeLen \/ DecodeLen

\* lengths around the limb and the 32-bit boundaries
LenValues == {<<h, l>> : h \in {0, 1, Limb - 1, Limb, Limb + 1},
                         l \in {0, 1, Limb - 1}}

InitLen ==
    /\ pc = "len_start"
    /\ len_in \in [bc_len : LenValues, ad_len : LenValues, key_id : {7, 258}]
    /\ len_enc = Idle /\ len_dec = Idle
    /\ codec_idle /\ batch_idle

SpecLen == InitLen /\ [][NextLen]_vars

(***************************************************************************)
(* The command-line tool: main and encrypt of src/main.rs.                 *)
(*                                                                         *)
(* A file of the input list is known by the name of its output file (the   *)
(* file name of the input with the extension replaced), by whether the     *)
(* input is that output file itself (it lies in the output directory and   *)
(* already bears the output extension), and by the fault of the calls made *)
(* for it: fs::read fails, the compiler returns a null pointer, the        *)
(* println! after compiling cannot write to stdout, File::create fails,    *)
(* the output file accepts no bytes, sync_all fails, the println! after    *)
(* the output file is written cannot write to stdout, or (for decrypt) the *)
(* content on disk is a container whose tag has been damaged.  Output      *)
(* files are known by their name: inputs of one name share one output      *)
(* file.  err() prints and exits; expect(), unwrap(), assert!() and a      *)
(* println! that cannot write panic.                                       *)
(***************************************************************************)
Faults ==
    {"none", "read", "compile", "print_compiled", "create", "write", "sync",
     "print_done", "data"}

Names == {"a", "b"}

\* the external compiler behind luau_compile_internal: the bytecode of a
\* source (a version byte, then what depends on the source), or a null pointer
luau_compile_internal(source, null) ==
    IF null THEN <<>> ELSE <<(<<6, Len(source)>> \o source)>>

\* compile.rs 75-87: the bytes the compiler returned; ok is FALSE when the
\* assertion that the pointer is not null fails
luau_compile(source, null) ==
    LET data_ptr == luau_compile_internal(source, null)
    IN  [ok |-> data_ptr # <<>>,
         data |-> IF data_ptr # <<>> THEN data_ptr[1] ELSE <<>>]

SourceBytes == <<104>>
ToolAad == <<118>>
GoodContainer ==
    encrypt_bytecode_into(luau_compile(SourceBytes, FALSE).data, <<Nonce1>>,
                          Nonce1, Key0, 7, ToolAad, new_sink(-1)).out_buf.data

\* lines 28-29 and 126-128: out_dir joined with the file name of the input
\* under the output extension.  (file_name is None only for a path ending in
\* `..` or a root, which fs::read has refused before this line is reached.)
out_path(file) == file.name

\* what the file of the input list holds before the tool runs
content(cmd, file) ==
    IF cmd # "decrypt" THEN SourceBytes
    ELSE IF file.fault = "data"
    THEN apply_tamper(GoodContainer, [op |-> "flip", a |-> HEADER_LEN, b |-> 0])
    ELSE GoodContainer

\* what fs::read returns for a file of the input list: what the file holds
\* now, which for an input that is an output file already written in this
\* run is what was written
read_input(cmd, file, fs) ==
    IF file.in_place /\ fs[out_path(file)].st # "absent"
    THEN fs[out_path(file)].data
    ELSE content(cmd, file)

out_file(file) == new_sink(IF file.fault = "write" THEN 0 ELSE -1)

stop(how) ==
    /\ proc' = how
    /\ pc' = "end"
    /\ UNCHANGED <<cli, i, compiled>>

\* lines 64-81: the key file is read and its length checked, the output
\* directory is the one given or else the current directory, and is created;
\* with an empty input list the loops of the subcommand (lines 95, 114, 123
\* and 26) have no iteration and main returns
Main ==
    /\ pc = "main"
    /\ IF ~cli.key_readable
       THEN stop("panic") /\ UNCHANGED fsys
       ELSE IF Len(cli.key) # KEY_LEN
       THEN stop("exit") /\ UNCHANGED fsys
       ELSE IF cli.out_dir = <<>> /\ ~cli.cwd_ok
       THEN stop("panic") /\ UNCHANGED fsys
       ELSE IF ~cli.out_dir_ok
       THEN stop("exit") /\ UNCHANGED fsys
       ELSE IF cli.input = <<>>
       THEN stop("done") /\ UNCHANGED fsys
       ELSE /\ pc' = IF cli.command = "decrypt" THEN "decrypt" ELSE "read"
            /\ i' = 1
            /\ UNCHANGED <<cli, compiled, fsys, proc>>
    /\ UNCHANGED <<codec_vars, len_vars>>

\* lines 95-105 (compile) and 113-119 (encrypt): one file is read, and for
\* compile compiled and reported on stdout, before any file is encrypted
ReadInput ==
    /\ pc = "read"
    /\ LET file == cli.input[i]
           source == read_input(cli.command, file, fsys)
           bytecode == luau_compile(source, file.fault = "compile")
       IN  IF file.fault = "read"
           THEN stop(IF cli.command = "compile" THEN "exit" ELSE "panic")
           ELSE IF cli.command = "compile" /\ ~bytecode.ok
           THEN stop("panic")
           ELSE IF cli.command = "compile" /\ file.fault = "print_compiled"
           THEN stop("panic")
           ELSE /\ compiled' = Append(compiled,
                        <<i, IF cli.command = "compile"
                             THEN bytecode.data ELSE source>>)
                /\ i' = IF i = Len(cli.input) THEN 1 ELSE i + 1
                /\ pc' = IF i = Len(cli.input) THEN "encrypt" ELSE "read"
                /\ UNCHANGED <<cli, proc>>
    /\ UNCHANGED <<fsys, codec_vars, len_vars>>

\* lines 26-56: one iteration of the loop of encrypt; File::create empties
\* the output file, whoever wrote it before, and the println! comes last
EncryptFile ==
    /\ pc = "encrypt"
    /\ LET file == cli.input[compiled[i][1]]
           out == out_path(file)
       IN  IF file.fault = "create"
           THEN stop("panic") /\ UNCHANGED fsys
           ELSE \E rnd \in Nonces :
                  LET r == encrypt_bytecode_into(compiled[i][2], <<>>, rnd,
                               cli.key,
                               IF cli.key_id = <<>> THEN 0 ELSE cli.key_id[1],
                               cli.aad, out_file(file))
                  IN  IF r.res # "Ok"
                      THEN /\ fsys' = [fsys EXCEPT ![out] =
                                         [st |-> "partial", data |-> r.out_buf.data]]
                           /\ stop("exit")
                      ELSE IF file.fault = "sync"
                      THEN /\ fsys' = [fsys EXCEPT ![out] =
                                         [st |-> "unsynced", data |-> r.out_buf.data]]
                           /\ stop("exit")
                      ELSE IF file.fault = "print_done"
                      THEN /\ fsys' = [fsys EXCEPT ![out] =
                                         [st |-> "complete", data |-> r.out_buf.data]]
                           /\ stop("panic")
                      ELSE /\ fsys' = [fsys EXCEPT ![out] =
                                         [st |-> "complete", data |-> r.out_buf.data]]
                           /\ i' = i + 1
                           /\ pc' = IF i = Len(compiled) THEN "end" ELSE "encrypt"
                           /\ proc' = IF i = Len(compiled) THEN "done" ELSE proc
                           /\ UNCHANGED <<cli, compiled>>
    /\ UNCHANGED <<codec_vars, len_vars>>

\* lines 123-144: one iteration of the loop of the decrypt subcommand;
\* File::create empties the output file before the container is decoded,
\* and the println! comes last
DecryptFile ==
    /\ pc = "decrypt"
    /\ LET file == cli.input[i]
           out == out_path(file)
           r == decrypt_bytecode_into(read_input(cli.command, file, fsys),
                                      cli.key, cli.key_id, out_file(file), <<>>)
       IN  IF file.fault \in {"read", "create"}
           THEN stop("panic") /\ UNCHANGED fsys
           ELSE IF r.res # "Ok"
           THEN /\ fsys' = [fsys EXCEPT ![out] =
                              [st |-> "partial", data |-> r.out_buf.data]]
                /\ stop("panic")
           ELSE IF file.fault = "sync"
           THEN /\ fsys' = [fsys EXCEPT ![out] =
                              [st |-> "unsynced", data |-> r.out_buf.data]]
                /\ stop("exit")
           ELSE IF file.fault = "print_done"
           THEN /\ fsys' = [fsys EXCEPT ![out] =
                              [st |-> "complete", data |-> r.out_buf.data]]
                /\ stop("panic")
           ELSE /\ fsys' = [fsys EXCEPT ![out] =
                              [st |-> "complete", data |-> r.out_buf.data]]
                /\ i' = i + 1
                /\ pc' = IF i = Len(cli.input) THEN "end" ELSE "decrypt"
                /\ proc' = IF i = Len(cli.input) THEN "done" ELSE proc
                /\ UNCHANGED <<cli, compiled>>
    /\ UNCHANGED <<codec_vars, len_vars>>

NextBatch == Main \/ ReadInput \/ EncryptFile \/ DecryptFile

\* the input files of the command line: none, or up to MaxFiles
InputLists ==
    UNION {[1..n -> [fault : Faults, name : Names, in_place : BOOLEAN]] :
             n \in 0..MaxFiles}

InitBatch ==
    /\ pc = "main"
    /\ cli \in [command : {"compile", "encrypt", "decrypt"},
                key_readable : BOOLEAN,
                key : {Key0, KeyShort},
                out_dir : {<<>>, <<"out">>},
                cwd_ok : BOOLEAN,
                out_dir_ok : BOOLEAN,
                key_id : {<<>>, <<7>>},
                aad : {ToolAad},
                input : InputLists]
    /\ i = 0
    /\ compiled = <<>>
    /\ fsys = [n \in Names |-> [st |-> "absent", data |-> <<>>]]
    /\ proc = "running"
    /\ codec_idle /\ len_idle

SpecBatch == InitBatch /\ [][NextBatch]_vars

(***************************************************************************)
(* The error taxonomy: the kind of each outcome of the code.               *)
(***************************************************************************)
Kind(res) ==
    CASE res = "Ok" -> "Ok"
      [] res = "key must be 32 bytes" -> "KeyError"
      [] res \in {"invalid bytecode", "unsupported version",
                  "unsupported aead id"} -> "FormatError"
      [] res = "key ID mismatch" -> "KeyIdMismatch"
      [] res = "decryption failed" -> "AuthenticationError"
      [] res \in {"write failed", "failed to write additional data",
                  "failed to write plaintext"} -> "SinkError"
      [] res = "panic" -> "Panic"

\* what a sink holds
Written(w) == IF w = <<>> THEN <<>> ELSE w[1].data

(***************************************************************************)
(* What a buffer says, read off its bytes by position.                     *)
(***************************************************************************)
HeaderKeyId(b) == b[11] + 256 * b[12]
DeclaredAdLen(b) == <<b[15] + 256 * b[16], b[13] + 256 * b[14]>>
DeclaredCtLen(b) == <<b[19] + 256 * b[20], b[17] + 256 * b[18]>>
DeclaredFits(b) ==
    usize_leq(usize_add(usize_add(to_usize(HEADER_LEN), DeclaredCtLen(b)),
                        DeclaredAdLen(b)),
              to_usize(Len(b)))
NothingWritten ==
    dec_out.out_buf.data = <<>> /\ Written(dec_out.ad_buf) = <<>>

(***************************************************************************)
(* Claims.                                                                 *)
(***************************************************************************)

\* C1 restricted to payloads the model enumerates byte by byte (their
\* lengths fit the 32-bit length fields): an
\* untouched container decodes, under the encoder's key and key id, to the
\* plaintext and the associated data, and returns their lengths.
RoundTripBounded ==
    (pc = "decoded")
        => /\ dec_out.res = "Ok"
           /\ dec_out.out_buf.data = enc_in.bytecode
           /\ Written(dec_out.ad_buf) = enc_in.ad
           /\ dec_out.ret = <<Len(enc_in.bytecode), <<Len(enc_in.ad)>>>>

\* C2 (as claimed): decrypt_bytecode_into never panics, and a buffer shorter
\* than the 60-byte fixed header, or one whose declared ad_len/ct_len exceed
\* the bytes after the fixed header, yields a TruncatedInput error value.
C2_NoPanicTruncatedInput ==
    (pc = "decoded" /\ Len(dec_in.key) = KEY_LEN)
        => /\ dec_out.res # "panic"
           /\ (Len(blob) < HEADER_LEN \/ ~DeclaredFits(blob))
                 => Kind(dec_out.res) = "TruncatedInput"

\* C3: a single bit flipped in the nonce, tag, ciphertext or associated data
\* of a valid container makes decoding with the original key fail with
\* AuthenticationError.
C3_TamperDetected ==
    (pc = "decoded" /\ tamper.op = "flip"
       /\ tamper.a > HEADER_LEN - NONCE_LEN - TAG_LEN
       /\ dec_in.key = enc_in.key)
        => Kind(dec_out.res) = "AuthenticationError"

C3_Witness ==
    /\ pc = "decoded"
    /\ tamper.op = "flip"
    /\ tamper.a > HEADER_LEN + Len(enc_in.bytecode)
    /\ dec_in.key = enc_in.key
    /\ dec_out.res = "decryption failed"

\* C4: with expected_key_id = Some(X) and a header key id other than X the
\* decoder fails with KeyIdMismatch and the cipher is never invoked, also when
\* nonce, tag or ciphertext are corrupted as well; with expected_key_id = None
\* the outcome is never KeyIdMismatch.  (The header is one that passes the
\* checks made before the key id: key length, magic, version, cipher id.)
C4_KeyIdGating ==
    (pc = "decoded" /\ Len(dec_in.key) = KEY_LEN)
        => /\ (/\ Len(blob) >= 12
               /\ SubSeq(blob, 1, 8) = MAGIC
               /\ blob[9] = LUAUCX_VERSION
               /\ blob[10] = AEAD_XCHACHA20
               /\ dec_in.expected_key_id # <<>>
               /\ HeaderKeyId(blob) # dec_in.expected_key_id[1])
                 => /\ Kind(dec_out.res) = "KeyIdMismatch"
                    /\ ~dec_out.cipher
                    /\ NothingWritten
           /\ (dec_in.expected_key_id = <<>>)
                 => Kind(dec_out.res) # "KeyIdMismatch"

C4_Witness ==
    /\ pc = "decoded"
    /\ tamper.op = "flip"
    /\ tamper.a = HEADER_LEN
    /\ dec_in.key = enc_in.key
    /\ dec_in.expected_key_id = <<258>>
    /\ HeaderKeyId(blob) = 7
    /\ dec_out.res = "key ID mismatch"
    /\ ~dec_out.cipher

\* C5: a version byte other than 1, or a cipher id byte other than 1, makes
\* the decoder fail with FormatError whatever the other bytes are, and
\* nothing is written to either sink.
C5_VersionCipherRejected ==
    (pc = "decoded" /\ Len(dec_in.key) = KEY_LEN)
        => ((\/ (Len(blob) >= 9 /\ blob[9] # LUAUCX_VERSION)
             \/ (Len(blob) >= 10 /\ blob[10] # AEAD_XCHACHA20))
               => /\ Kind(dec_out.res) = "FormatError"
                  /\ ~dec_out.cipher
                  /\ NothingWritten)

C5_Witness ==
    /\ pc = "decoded"
    /\ tamper.op = "set"
    /\ tamper.a = 10
    /\ dec_in.key = enc_in.key
    /\ dec_in.expected_key_id = <<enc_in.key_id>>
    /\ SubSeq(blob, 1, 9) = MAGIC \o <<LUAUCX_VERSION>>
    /\ dec_out.res = "unsupported aead id"

\* C6: on success the encoder has written magic, version, cipher id, key id
\* (2 bytes LE), ad_len (4 bytes LE), ct_len (4 bytes LE), nonce, tag,
\* ciphertext, associated data, in this order and nothing else, and returns
\* the number of bytes written, 60 + |plaintext| + |aad|.
C6_EncoderOutput ==
    (pc # "start" /\ enc_out.res = "Ok")
        => LET d == enc_out.out_buf.data
               n == Len(enc_in.bytecode)
               m == Len(enc_in.ad)
               nonce == SubSeq(d, 21, 44)
               sealed == aead_encrypt(enc_in.key, nonce, enc_in.bytecode, enc_in.ad)
           IN  /\ Len(d) = 60 + n + m
               /\ SubSeq(d, 1, 8) = MAGIC
               /\ d[9] = 1 /\ d[10] = 1
               /\ d[11] + 256 * d[12] = enc_in.key_id
               /\ SubSeq(d, 13, 16) = <<m % 256, m \div 256, 0, 0>>
               /\ SubSeq(d, 17, 20) = <<n % 256, n \div 256, 0, 0>>
               /\ IF enc_in.nonce = <<>> THEN nonce \in Nonces
                  ELSE nonce = enc_in.nonce[1]
               /\ SubSeq(d, 45, 60) = SubSeq(sealed, n + 1, n + 16)
               /\ SubSeq(d, 61, 60 + n) = SubSeq(sealed, 1, n)
               /\ SubSeq(d, 61 + n, 60 + n + m) = enc_in.ad
               /\ enc_out.ret = <<to_usize(Len(d))>>
               /\ enc_out.ret = <<to_usize(60 + n + m)>>

C6_Witness ==
    /\ pc = "encoded"
    /\ enc_out.res = "Ok"
    /\ Len(enc_in.bytecode) = MaxPt
    /\ Len(enc_in.ad) = MaxAd
    /\ enc_in.nonce = <<>>
    /\ Len(enc_out.out_buf.data) = HEADER_LEN + MaxPt + MaxAd

\* C7 (as claimed): whenever the decoder returns an error of any kind, no
\* byte has been written to the plaintext sink or to the AD sink.
C7_AllOrNothing ==
    (pc = "decoded" /\ Kind(dec_out.res) \notin {"Ok", "Panic"})
        => NothingWritten

\* C7 (amended): whenever the decoder returns KeyError, FormatError,
\* KeyIdMismatch or AuthenticationError, or aborts, no byte has been written
\* to either sink; bytes reach a sink only on a call that returns success or
\* SinkError.
C7_NothingWrittenUnlessSinkError ==
    (pc = "decoded" /\ Kind(dec_out.res) \notin {"Ok", "SinkError"})
        => NothingWritten

C7_Witness ==
    /\ pc = "decoded"
    /\ dec_out.res = "decryption failed"
    /\ dec_out.cipher
    /\ dec_in.ad_room = <<-1>>
    /\ Len(enc_in.bytecode) > 0 /\ Len(enc_in.ad) > 0
    /\ Len(blob) = HEADER_LEN + Len(enc_in.bytecode) + Len(enc_in.ad)
    /\ NothingWritten

\* C9 (as claimed): the checks are made in the order fixed-header length,
\* magic, version, cipher id, key id (if one is expected), declared lengths
\* fit, AEAD open; the error is that of the first check that fails, and the
\* cipher is invoked only after all the others have passed.
C9_ValidationOrder ==
    (pc = "decoded" /\ Len(dec_in.key) = KEY_LEN)
        => IF Len(blob) < HEADER_LEN
           THEN Kind(dec_out.res) = "TruncatedInput" /\ ~dec_out.cipher
           ELSE IF SubSeq(blob, 1, 8) # MAGIC
           THEN dec_out.res = "invalid bytecode" /\ ~dec_out.cipher
           ELSE IF blob[9] # LUAUCX_VERSION
           THEN dec_out.res = "unsupported version" /\ ~dec_out.cipher
           ELSE IF blob[10] # AEAD_XCHACHA20
           THEN dec_out.res = "unsupported aead id" /\ ~dec_out.cipher
           ELSE IF dec_in.expected_key_id # <<>>
                   /\ HeaderKeyId(blob) # dec_in.expected_key_id[1]
           THEN dec_out.res = "key ID mismatch" /\ ~dec_out.cipher
           ELSE IF ~DeclaredFits(blob)
           THEN Kind(dec_out.res) = "TruncatedInput" /\ ~dec_out.cipher
           ELSE dec_out.cipher
                  /\ Kind(dec_out.res) \in {"AuthenticationError", "Ok", "SinkError"}

\* C1 (as claimed): for every plaintext and associated data, decoding what
\* the encoder wrote, with the same key and key id, succeeds and returns
\* (|P|, Some(|A|)).
C1_RoundTrip ==
    (pc = "len_decoded")
        => /\ len_dec.res = "Ok"
           /\ len_dec.ret = <<len_in.bc_len, <<len_in.ad_len>>>>

\* the key and the output directory are in order, so that main reaches the
\* input list
EnvOk ==
    /\ cli.key_readable /\ Len(cli.key) = KEY_LEN
    /\ (cli.out_dir # <<>> \/ cli.cwd_ok) /\ cli.out_dir_ok

\* file j of the input list has no fault of its own, and its input has not
\* been overwritten by the output of an earlier file
Sound(j) ==
    /\ cli.input[j].fault = "none"
    /\ ~(/\ cli.command = "decrypt"
         /\ cli.input[j].in_place
         /\ \E k \in 1..(j - 1) : cli.input[k].name = cli.input[j].name)

\* C8 (as claimed): when the tool has ended, every file of the input list
\* that has no fault of its own has its output file, whatever happened to the
\* other files.
C8_BatchIsolation ==
    (pc = "end" /\ EnvOk)
        => \A j \in 1..Len(cli.input) :
              Sound(j) => fsys[out_path(cli.input[j])].st = "complete"

\* C10 (as claimed): in every container the encoder writes, the ct_len field
\* is the plaintext length and the ad_len field is the associated-data
\* length, so that the container is 60 + ct_len + ad_len bytes long.
C10_LengthFieldsExact ==
    (pc = "len_encoded")
        => LET ad_field == u32_from_le_bytes(SubSeq(len_enc.hdr, 13, 16))
               ct_field == u32_from_le_bytes(SubSeq(len_enc.hdr, 17, 20))
           IN  /\ ct_field = len_in.bc_len
               /\ ad_field = len_in.ad_len
               /\ len_enc.written
                    = usize_add(usize_add(to_usize(HEADER_LEN), ct_field), ad_field)
====
